---- MODULE Spec2Model ----
(***************************************************************************)
(* A model of the story/flipbook backend (src/index.js): the chat retry    *)
(* helper makeChatRequest, the request handlers that own temporary files,  *)
(* the flipbook polling loops, describeImage's reply validation and the    *)
(* preview store with its hourly sweep.                                    *)
(*                                                                         *)
(* Text is modelled as a sequence of one-character (or one-token) strings, *)
(* so that stripping, splitting and "contains" are computed, not assumed.  *)
(***************************************************************************)
EXTENDS Integers, Sequences, FiniteSets, TLC

(***************************************************************************)
(* Bounds of the model                                                     *)
(***************************************************************************)
\* longest chat-completion reply (in tokens) the upstream may send
MaxContentLen == 4
\* longest completion (in characters) describeImage is applied to
MaxReplyLen == 13
\* longest completion with spaces in it describeImage is applied to
MaxSpacedLen == 7
\* previews created in one run
MaxPreviews == 2
\* how far the clock runs, in ticks of half the retention window
MaxTicks == 5
\* the longest summary given to generateStoryName, in words and whitespace characters
MaxSummaryLen == 7
\* the most keys of a storyData object
MaxStoryKeys == 3
\* the longest imageUrls array
MaxUrls == 2

(***************************************************************************)
(* Program constants                                                       *)
(***************************************************************************)
MAX_RETRIES == 5
\* the base of the linear backoff of makeChatRequest, in ms
BackoffBaseMs == 1000
\* the one status makeChatRequest retries on
RateLimited == 429

VARIABLES
    \* ---- the request being handled
    handler,      \* which endpoint's handler runs ("none" before a request)
    hpc,          \* the await the handler is suspended at
    response,     \* the HTTP response sent, NoReply until then
    handlerEnd,   \* "running" | "returned" | "threw": how the handler's promise ended
    uploadFile,   \* the multer upload of the request: "none" | "present" | "deleted"
    tempFile,     \* the temp PDF of create-flipbook-from-url: "none" | "present" | "deleted"
    described,    \* what describeImage settled with, NoValue until then
    awaited,      \* history: the awaits the handler has made, oldest first
    caught,       \* the error the handler's catch clause caught, NoValue when none
    tasks,        \* the per-chapter tasks given to Promise.all, in chapter key order
    \* ---- the flipbook publication of the request
    createLog,    \* the outcome of the create call, NoValue until then
    attempts,     \* the loop counter of the polling loop
    waits,        \* 5-second waits completed
    pollLog,      \* the outcome of every status poll so far, oldest first
    flipbookUrl,  \* the loop's flipbookUrl, <<>> for null
    \* ---- getPublicationDetails
    pubPc,        \* "idle" | "requesting" | "delaying" | "resolved" | "rejected"
    pubRetries,   \* the retries parameter of the running (recursive) call
    pubRequests,  \* status requests issued by the top-level call
    pubLog,       \* the outcome of every attempt so far, oldest first
    pubDelays,    \* the delays waited so far, in ms, oldest first
    pubValue,     \* the value resolved with, or the error rejected with
    \* ---- makeChatRequest
    chatPc,       \* "idle" | "requesting" | "delaying" | "resolved" | "rejected"
    retries,      \* the retries parameter of the running (recursive) call
    requests,     \* chat-completion requests issued by the top-level call
    chatLog,      \* the outcome of every attempt so far, oldest first
    delays,       \* the delays waited so far, in ms, oldest first
    chatContent,  \* the stripped content of the last reply that carried one
    chatValue,    \* the value resolved with, or the error rejected with
    \* ---- which makeChatRequest runs, when it runs on its own
    chatVariant,  \* "index.js" | "part_000": the file whose helper is called
    promptOk,     \* validateStoryPrompt(message) of part_000
    \* ---- describeImage applied to one completion
    descReply,    \* the completion the call is answered with
    descResult,   \* what describeImage settled with, NoValue until then
    \* ---- the preview store
    now,          \* Date.now(), in ms since the process started
    processUp,    \* FALSE once an uncaught exception has ended the process
    nextId,       \* the number of the next uuid
    writing,      \* the ids whose PDF is still being written
    pdfPreviews,  \* the Map, as its entries [id, path] in insertion order
    files,        \* the files of pdf-previews/: path -> mtimeMs
    nextSweepAt,  \* when the interval timer is due next
    served,       \* what the last GET /api/pdf-preview/:id answered
    born,         \* history: id -> the mtime its file had when it was registered
    swept,        \* history: the ids a sweep pass met when their file was over age
    \* ---- the document of /api/pdf, /api/generate-pdf and /api/generate-pdf-preview
    reqBody,      \* the request body: storyData's keys, imageUrls, storyName
    doc,          \* what has been written to the PDFDocument, oldest first
    chapterIdx,   \* the chapter (counted from 1) whose image is being downloaded
    docEnded,     \* doc.end() has been called
    imageLog,     \* history: how each image download ended, oldest first
    previewId,    \* the uuid of the preview being built, 0 when none
    \* ---- generateStoryName applied to one summary
    nameInput,    \* the summary, as its words and whitespace characters
    nameResult    \* the name returned, NoValue until then

chatVars == <<chatPc, retries, requests, chatLog, delays, chatContent, chatValue>>
fileVars == <<uploadFile, tempFile>>
flipVars == <<createLog, attempts, waits, pollLog, flipbookUrl>>
pubVars  == <<pubPc, pubRetries, pubRequests, pubLog, pubDelays, pubValue>>
variantVars == <<chatVariant, promptOk>>
reqVars  == <<handler, hpc, response, handlerEnd, described, awaited, caught>>
docVars  == <<reqBody, doc, chapterIdx, docEnded, imageLog, previewId>>
descVars == <<descReply, descResult>>
prevVars == <<now, processUp, nextId, writing, pdfPreviews, files, nextSweepAt, served,
              born, swept>>
handlerVars == <<reqVars, fileVars, flipVars, chatVars, docVars, pubVars, variantVars, tasks>>
nameVars == <<nameInput, nameResult>>
vars     == <<handlerVars, descVars, prevVars, nameVars>>

(***************************************************************************)
(* Text helpers                                                            *)
(***************************************************************************)
RECURSIVE SeqsUpTo(_, _)
\* all sequences over S of length at most n
SeqsUpTo(S, n) ==
    IF n = 0 THEN { <<>> }
    ELSE LET shorter == SeqsUpTo(S, n - 1)
         IN  shorter \cup { Append(s, c) : s \in { t \in shorter : Len(t) = n - 1 }, c \in S }

\* needle occurs in hay as a contiguous run
Contains(hay, needle) ==
    \E i \in 0..(Len(hay) - Len(needle)) : SubSeq(hay, i + 1, i + Len(needle)) = needle

(***************************************************************************)
(* Errors and HTTP responses                                               *)
(***************************************************************************)
NoResponse == [present |-> FALSE, status |-> 0, data |-> <<>>]
NoReply    == [status |-> 0, body |-> [kind |-> "none"]]
NoValue    == [kind |-> "none"]

\* an axios rejection that carries the upstream's response
HttpError(status) ==
    [name     |-> "AxiosError",
     message  |-> <<"Request failed with status code", ToString(status)>>,
     response |-> [present |-> TRUE, status |-> status,
                   data |-> <<"upstream body", ToString(status)>>]]

\* an axios rejection with no response at all
NetworkError ==
    [name |-> "AxiosError", message |-> <<"Network Error">>, response |-> NoResponse]

\* new Error(text): a message and nothing else
PlainError(text) ==
    [name |-> "Error", message |-> <<text>>, response |-> NoResponse]

\* reading a property of undefined
TypeErrorOf(text) ==
    [name |-> "TypeError", message |-> <<text>>, response |-> NoResponse]

(***************************************************************************)
(* makeChatRequest                                                         *)
(***************************************************************************)
\* U+0000..U+001F and U+007F..U+009F, of which a newline and NEL occur
ControlChars == { "\n", "U+0085" }
\* the tokens of a reply: braces, a "chapterN": "..." pair, control characters
ContentTokens == { "{", "}", "kv" } \cup ControlChars
ChatContents == SeqsUpTo(ContentTokens, MaxContentLen)

escapeJsonString(str) == SelectSeq(str, LAMBDA c : c \notin ControlChars)

\* JSON.parse succeeds: an object of key/value pairs
JsonParses(content) ==
    /\ Len(content) >= 2
    /\ content[1] = "{"
    /\ content[Len(content)] = "}"
    /\ \A i \in 2..(Len(content) - 1) : content[i] = "kv"

\* the parsed story: its chapter keys are counted
JsonParse(content) == [kind |-> "story", chapters |-> Len(content) - 2]

\* what one axios.post of makeChatRequest can end in
ChatOutcomes ==
    [type : {"reply"}, status : {200}, content : ChatContents]
    \cup [type : {"malformed"}, status : {200}, content : { <<>> }]
    \cup [type : {"http"}, status : {RateLimited, 401, 500}, content : { <<>> }]
    \cup [type : {"network"}, status : {0}, content : { <<>> }]

\* the error the inner code raises for an outcome, NoValue when it returns
ChatErrorOf(o) ==
    CASE o.type = "http"      -> HttpError(o.status)
      [] o.type = "network"   -> NetworkError
      [] o.type = "malformed" -> TypeErrorOf("Cannot read properties of undefined (reading 'message')")
      [] o.type = "reply" /\ ~JsonParses(escapeJsonString(o.content))
                              -> PlainError("Failed to parse JSON response")
      [] OTHER                -> NoValue

\* the catch clause's test with the bound off by one
ShouldRetryInclusive(error, n) ==
    /\ error.response.present
    /\ error.response.status = RateLimited
    /\ n <= MAX_RETRIES

\* the catch clause's test without the status comparison
ShouldRetryAnyStatus(error, n) ==
    /\ error.response.present
    /\ n < MAX_RETRIES

\* the catch clause's test without any look at the error
ShouldRetryAnyError(error, n) == n < MAX_RETRIES

\* the catch clause's test: retry on a 429 while retries remain
ShouldRetry(error, n) ==
    /\ error.response.present
    /\ error.response.status = RateLimited
    /\ n < MAX_RETRIES

\* the delay before the retry that follows n retries
RetryDelay(n) == (n + 1) * BackoffBaseMs

\* the top-level call: retries = 0, and the first request goes out
ChatCall ==
    /\ chatPc' = "requesting"
    /\ retries' = 0
    /\ requests' = 1
    /\ chatLog' = <<>>
    /\ delays' = <<>>
    /\ chatContent' = <<>>
    /\ chatValue' = NoValue

\* the await of axios.post resumes with outcome o: parse, or catch
ChatResponse(o) ==
    /\ chatPc = "requesting"
    /\ chatLog' = Append(chatLog, o)
    /\ chatContent' = IF o.type = "reply" THEN escapeJsonString(o.content) ELSE chatContent
    /\ LET error == ChatErrorOf(o) IN
         IF error = NoValue
         THEN /\ chatPc' = "resolved"
              /\ chatValue' = JsonParse(escapeJsonString(o.content))
              /\ UNCHANGED <<retries, requests, delays>>
         ELSE IF ShouldRetry(error, retries)
         THEN /\ chatPc' = "delaying"
              /\ delays' = Append(delays, RetryDelay(retries))
              /\ UNCHANGED <<retries, requests, chatValue>>
         ELSE /\ chatPc' = "rejected"
              /\ chatValue' = error
              /\ UNCHANGED <<retries, requests, delays>>

\* the delay elapsed: the recursive call with retries + 1 issues its request
ChatRetry ==
    /\ chatPc = "delaying"
    /\ chatPc' = "requesting"
    /\ retries' = retries + 1
    /\ requests' = requests + 1
    /\ UNCHANGED <<chatLog, delays, chatContent, chatValue>>

\* ---- the makeChatRequest of src/unnamed/part_000
\* the retry-after header of a 429: absent, or a number of seconds
RetryAfterHeaders == { "absent", "1", "3" }

\* parseInt(error.response.headers['retry-after'] || '1', 10)
retryAfter(header) ==
    CASE header = "absent" -> 1
      [] header = "1"      -> 1
      [] header = "3"      -> 3

\* what one completion call of part_000 can end in; "sdk" is a rejection
\* that carries no response property
HintedOutcomes ==
    [type : {"reply", "network", "sdk"}, status : {0}, header : {"absent"}]
    \cup [type : {"http"}, status : {RateLimited}, header : RetryAfterHeaders]
    \cup [type : {"http"}, status : {500}, header : {"absent"}]

HintedErrorOf(o, valid) ==
    CASE o.type = "http"    -> HttpError(o.status)
      [] o.type = "network" -> NetworkError
      [] o.type = "sdk"     -> [name |-> "APIError", message |-> <<"429 rate limited">>,
                                response |-> NoResponse]
      [] o.type = "reply" /\ ~valid -> PlainError("Invalid story prompt.")
      [] OTHER              -> NoValue

\* delay(retryAfter * 1000)
HintedDelay(header) == retryAfter(header) * 1000

\* the await of the completion resumes with outcome o: return, or catch
HintedResponse(o) ==
    /\ chatPc = "requesting"
    /\ chatLog' = Append(chatLog, o)
    /\ LET error == HintedErrorOf(o, promptOk) IN
         IF error = NoValue
         THEN /\ chatPc' = "resolved"
              /\ chatValue' = [kind |-> "text"]
              /\ UNCHANGED <<retries, requests, delays, chatContent>>
         ELSE IF ShouldRetry(error, retries)
         THEN /\ chatPc' = "delaying"
              /\ delays' = Append(delays, HintedDelay(o.header))
              /\ UNCHANGED <<retries, requests, chatValue, chatContent>>
         ELSE /\ chatPc' = "rejected"
              /\ chatValue' = error
              /\ UNCHANGED <<retries, requests, delays, chatContent>>

ChatIdle ==
    /\ chatPc = "idle"
    /\ retries = 0
    /\ requests = 0
    /\ chatLog = <<>>
    /\ delays = <<>>
    /\ chatContent = <<>>
    /\ chatValue = NoValue


(***************************************************************************)
(* describeImage                                                           *)
(***************************************************************************)
MinParagraphs == 5

\* what String.prototype.trim removes, of the characters that occur
Whitespace == { "\n", " " }

RECURSIVE SplitBlank(_)
\* content.split('\n\n'): cut at each "\n\n", scanning left to right
SplitBlank(s) ==
    LET cuts == { i \in 1..(Len(s) - 1) : s[i] = "\n" /\ s[i + 1] = "\n" }
    IN  IF cuts = {} THEN << s >>
        ELSE LET i == CHOOSE c \in cuts : \A d \in cuts : c <= d
             IN  << SubSeq(s, 1, i - 1) >> \o SplitBlank(SubSeq(s, i + 2, Len(s)))

\* p.trim().length > 0
NonBlank(p) == \E i \in 1..Len(p) : p[i] \notin Whitespace

\* content.split('\n\n').filter(p => p.trim().length > 0)
Paragraphs(content) == SelectSeq(SplitBlank(content), NonBlank)

TooShortError    == PlainError("Generated content has less than 5 paragraphs")
NoMessageError   == PlainError("No valid message found in response")
NoStructureError == PlainError("Unexpected response structure")
\* the SDK's rejection of the completion call
ApiError         == [name |-> "APIError", message |-> <<"500 upstream error">>,
                     response |-> NoResponse]

\* the paragraph test with the bound off by one
TooShortInclusive(content) == Len(Paragraphs(content)) <= MinParagraphs

\* the paragraph test of describeImage
TooShort(content) == Len(Paragraphs(content)) < MinParagraphs

\* the shapes a completion can have: the call rejects ("failed"), there is no
\* response or no choice ("nochoices"), the choice has no string content
\* ("nomessage"), or the content is a string ("string")
DescribeShapes == {"failed", "nochoices", "nomessage", "string"}

\* describeImage, from the completion on: [ok, value] or [ok, error]
describeImage(reply) ==
    CASE reply.shape = "failed"    -> [ok |-> FALSE, error |-> ApiError, value |-> <<>>]
      [] reply.shape = "nochoices" -> [ok |-> FALSE, error |-> NoStructureError, value |-> <<>>]
      [] reply.shape = "nomessage" -> [ok |-> FALSE, error |-> NoMessageError, value |-> <<>>]
      [] OTHER ->
           IF TooShort(reply.content)
           THEN [ok |-> FALSE, error |-> TooShortError, value |-> <<>>]
           ELSE [ok |-> TRUE, error |-> NoValue, value |-> reply.content]

RECURSIVE Story(_)
\* k one-letter paragraphs separated by blank lines
Story(k) == IF k = 0 THEN <<>>
            ELSE IF k = 1 THEN <<"a">>
            ELSE Story(k - 1) \o <<"\n", "\n", "a">>

\* the completions a request handler is answered with
DescribeReplies ==
    [shape : DescribeShapes \ {"string"}, content : { <<>> }]
    \cup [shape : {"string"}, content : { Story(k) : k \in (MinParagraphs - 1)..(MinParagraphs + 1) }]

(***************************************************************************)
(* Request handlers: what they answer and what they clean up               *)
(***************************************************************************)
UploadHandlers == {"describe-image", "story-from-image", "flipbook-from-pdf"}
ChatHandlers   == {"chat", "regenerate-story"}
FlipHandlers   == {"flipbook-from-pdf", "flipbook-from-url"}

\* how an awaited upstream call of a handler can end
UpstreamResults == {"ok", "http", "network"}
UpstreamError(o) == IF o = "http" THEN HttpError(500) ELSE NetworkError

ErrorBody(text, error) ==
    [kind         |-> "error",
     error        |-> <<text>>,
     details      |-> error.message,
     responseData |-> IF error.response.present THEN error.response.data ELSE <<>>]

\* res.status(400).json({ error: text })
Rejection(text) ==
    [status |-> 400,
     body |-> [kind |-> "error", error |-> <<text>>, details |-> <<>>, responseData |-> <<>>]]

\* res.status(500).json({ error: 'Internal Server Error' })
InternalServerError ==
    [status |-> 500,
     body |-> [kind |-> "error", error |-> <<"Internal Server Error">>,
               details |-> <<>>, responseData |-> <<>>]]

\* the catch clause of POST /api/chat
ChatFailure(error) ==
    [status |-> 500,
     body |-> ErrorBody("An error occurred while generating the story and images.", error)]

\* the catch clause of both create-flipbook handlers
FlipFailure(error) ==
    [status |-> 500, body |-> ErrorBody("An error occurred while creating the flipbook", error)]

\* the 500 a handler's catch clause answers error with
FailureOf(h, error) ==
    IF h = "chat" THEN ChatFailure(error)
    ELSE IF h \in FlipHandlers THEN FlipFailure(error)
    ELSE InternalServerError

\* the finally clause of the upload handlers, which unlinks only on success
UploadCleanupOnSuccess(resp, file) ==
    IF file = "present" /\ resp.status = 200 THEN "deleted" ELSE file

\* the finally clause of the upload handlers: fs.unlinkSync(req.file.path)
UploadCleanup(resp, file) ==
    IF file = "present" THEN "deleted" ELSE file

\* the finally clause of create-flipbook-from-url: tempFilePath is a const of
\* the try block, so fs.existsSync(tempFilePath) raises a ReferenceError and
\* the unlink is never reached
TempCleanup(file) == file

\* how the handler's promise ends after its finally clause
FinallyEnd(h) == IF h = "flipbook-from-url" THEN "threw" ELSE "returned"

\* the handler answers resp and runs its finally clause
Respond(resp) ==
    /\ response' = resp
    /\ hpc' = "done"
    /\ UNCHANGED awaited
    /\ handlerEnd' = FinallyEnd(handler)
    /\ uploadFile' = UploadCleanup(resp, uploadFile)
    /\ tempFile' = TempCleanup(tempFile)

\* the try block ran to its answer
Finish(resp) == Respond(resp) /\ UNCHANGED caught

\* the catch clause caught error and answers resp
FailWith(resp, error) == Respond(resp) /\ caught' = error

\* the catch clause caught error and answers the handler's 500
Fail(error) == FailWith(FailureOf(handler, error), error)

\* an early return before the try block
Reject(text) ==
    /\ response' = Rejection(text)
    /\ hpc' = "done"
    /\ handlerEnd' = "returned"
    /\ UNCHANGED <<fileVars, awaited, caught>>

\* the handler goes on to its next await
Await(at) ==
    /\ hpc' = at
    /\ awaited' = Append(awaited, at)
    /\ UNCHANGED <<response, handlerEnd, caught>>

(***************************************************************************)
(* POST /api/chat, /api/regenerate-story, /api/describe-image and          *)
(* /api/generate-story-from-image                                          *)
(***************************************************************************)
\* POST /api/chat and POST /api/regenerate-story: both await makeChatRequest
AcceptChat(h) ==
    /\ handler = "none"
    /\ h \in ChatHandlers
    /\ handler' = h
    /\ Await("makeChatRequest")
    /\ ChatCall
    /\ UNCHANGED <<described, fileVars, flipVars>>

\* a multipart request reaches its handler, with or without a file
AcceptUpload(h, hasFile, formOk) ==
    /\ handler = "none"
    /\ h \in UploadHandlers
    /\ handler' = h
    /\ IF ~hasFile
       THEN /\ Reject(IF h = "flipbook-from-pdf" THEN "No PDF file uploaded"
                      ELSE "No image uploaded")
       ELSE IF h = "flipbook-from-pdf" /\ ~formOk
       \* reading the file or building the form throws inside the try block
       THEN /\ uploadFile' = UploadCleanup(FailureOf(h, TypeErrorOf("form")), "present")
            /\ response' = FailureOf(h, TypeErrorOf("form"))
            /\ hpc' = "done"
            /\ handlerEnd' = "returned"
            /\ caught' = TypeErrorOf("form")
            /\ UNCHANGED <<tempFile, awaited>>
       ELSE /\ uploadFile' = "present"
            /\ Await(IF h = "flipbook-from-pdf" THEN "create" ELSE "describeImage")
            /\ UNCHANGED tempFile
    /\ UNCHANGED <<described, flipVars, chatVars>>

\* describeImage settled for the completion reply
DescribeSettled(reply) ==
    /\ hpc = "describeImage"
    /\ described' = describeImage(reply)
    /\ IF ~described'.ok
       THEN Fail(described'.error) /\ UNCHANGED chatVars
       ELSE IF handler = "describe-image"
       THEN Finish([status |-> 200, body |-> [kind |-> "description", value |-> described'.value]])
            /\ UNCHANGED chatVars
       ELSE Await("makeChatRequest") /\ ChatCall /\ UNCHANGED fileVars
    /\ UNCHANGED <<handler, flipVars>>

\* makeChatRequest settled and the handler that awaited it goes on
ChatSettled ==
    /\ hpc = "makeChatRequest"
    /\ chatPc \in {"resolved", "rejected"}
    /\ IF chatPc = "rejected"
       THEN Fail(chatValue)
       ELSE IF handler = "regenerate-story"
       THEN Finish([status |-> 200, body |-> chatValue])
       ELSE Await("summarizeStory") /\ UNCHANGED fileVars
    /\ UNCHANGED <<handler, described, flipVars, chatVars>>

\* chapterKeys.map(async chapterKey => ...): one task per chapter key, each
\* at its first await
StartTasks(n) ==
    [i \in 1..n |-> [pc |-> "summarizeStory", url |-> 0, error |-> NoValue, nth |-> 0]]

\* how many of the tasks are fulfilled
Fulfilled(ts) == Cardinality({ i \in 1..Len(ts) : ts[i].pc = "fulfilled" })

\* a join that lets go as soon as one task is fulfilled
JoinedOnFirst(ts) == \E i \in 1..Len(ts) : ts[i].pc = "fulfilled"

\* Promise.all is fulfilled: every task is
Joined(ts) == \A i \in 1..Len(ts) : ts[i].pc = "fulfilled"

\* an answer whose imageUrls are the tasks' values in the order in which the
\* tasks were fulfilled
StoryAnswerAsCompleted(story, ts) ==
    [status |-> 200,
     body |-> [kind |-> "story", chapters |-> story.chapters,
               imageUrls |-> [k \in 1..Len(ts) |->
                                 ts[CHOOSE i \in 1..Len(ts) : ts[i].nth = k].url]]]

\* res.json({ ...storyData, summary, imageUrls, storyName }): Promise.all
\* resolves to the tasks' values in the order of the array that map built,
\* one per chapter key
StoryAnswer(story, ts) ==
    [status |-> 200,
     body |-> [kind |-> "story", chapters |-> story.chapters,
               imageUrls |-> [i \in 1..Len(ts) |-> ts[i].url]]]

\* summarizeStory of the whole story settled; on success the chapters' tasks
\* start, and Promise.all of no task is fulfilled at once
SummarySettled(o) ==
    /\ hpc = "summarizeStory"
    /\ IF o # "ok"
       THEN Fail(UpstreamError(o)) /\ UNCHANGED tasks
       ELSE IF chatValue.chapters = 0
       THEN Finish(StoryAnswer(chatValue, <<>>)) /\ UNCHANGED tasks
       ELSE /\ tasks' = StartTasks(chatValue.chapters)
            /\ Await("chapterImages")
            /\ UNCHANGED fileVars
    /\ UNCHANGED <<handler, described, flipVars, chatVars>>

\* what the await of Promise.all does when a task has moved to next, the
\* tasks now being ts: the first rejection is thrown into the catch clause,
\* the last fulfilment lets the handler answer, anything else leaves it
\* waiting; a handler that has answered already is not waiting any more
ImagesSettled(next, ts) ==
    IF hpc # "chapterImages"
    THEN UNCHANGED <<hpc, response, handlerEnd, awaited, caught, fileVars>>
    ELSE IF next.pc = "rejected" THEN Fail(next.error)
    ELSE IF Joined(ts) THEN Finish(StoryAnswer(chatValue, ts))
    ELSE UNCHANGED <<hpc, response, handlerEnd, awaited, caught, fileVars>>

\* the await of chapter i's task settled with o: its summarizeStory, then its
\* generateImage of that summary, whose url (written i: the image of the i-th
\* chapter key) is the task's value; nth remembers which fulfilment it was
TaskSettled(i, o) ==
    /\ i \in 1..Len(tasks)
    /\ tasks[i].pc \in {"summarizeStory", "generateImage"}
    /\ LET next == IF o # "ok"
                   THEN [pc |-> "rejected", url |-> 0, error |-> UpstreamError(o), nth |-> 0]
                   ELSE IF tasks[i].pc = "summarizeStory"
                   THEN [pc |-> "generateImage", url |-> 0, error |-> NoValue, nth |-> 0]
                   ELSE [pc |-> "fulfilled", url |-> i, error |-> NoValue,
                         nth |-> Fulfilled(tasks) + 1]
       IN  /\ tasks' = [tasks EXCEPT ![i] = next]
           /\ ImagesSettled(next, tasks')
    /\ UNCHANGED <<handler, described, flipVars, chatVars>>

\* POST /api/regenerate-image: one await of generateImage
AcceptRegenerateImage ==
    /\ handler = "none"
    /\ handler' = "regenerate-image"
    /\ Await("generateImage")
    /\ UNCHANGED <<described, fileVars>>

\* generateImage settled
GenerateImageSettled(o) ==
    /\ hpc = "generateImage"
    /\ IF o = "ok"
       THEN Finish([status |-> 200, body |-> [kind |-> "image", newImageUrl |-> <<"url">>]])
       ELSE Fail(UpstreamError(o))
    /\ UNCHANGED <<handler, described>>

(***************************************************************************)
(* POST /api/create-flipbook-from-pdf and /api/create-flipbook-from-url    *)
(***************************************************************************)
\* the ceiling of the polling loop
PollLimit == 10

HashIds == {"h1", "h2"}

CreateOutcomes == {"id", "noid", "http", "network"}

PollOutcomes ==
    [type : {"publication"}, state : {"Ready"}, hashId : HashIds]
    \cup [type : {"publication"}, state : {"Processing"}, hashId : {"h1"}]
    \cup [type : {"nopublication", "http", "network"}, state : {"-"}, hashId : {"-"}]

\* the Ready test with the state's name misspelt
IsReadyCaseSlip(o) == o.type = "publication" /\ o.state = "ready"

\* statusResponse.data.publication && statusResponse.data.publication.state === 'Ready'
IsReady(o) == o.type = "publication" /\ o.state = "Ready"

ViewUrl(hashId) == <<"https://online.flippingbook.com/view/", hashId, "/">>

\* what a poll raises in handler h before the Ready test, NoValue when nothing:
\* the axios rejection, or in create-flipbook-from-url the log line that reads
\* statusResponse.data.publication.state unguarded
PollErrorOf(h, o) ==
    CASE o.type \in {"http", "network"} -> UpstreamError(o.type)
      [] o.type = "nopublication" /\ h = "flipbook-from-url"
           -> TypeErrorOf("Cannot read properties of undefined (reading 'state')")
      [] OTHER -> NoValue

\* POST /api/create-flipbook-from-url reaches its handler
AcceptFromUrl(hasUrl) ==
    /\ handler = "none"
    /\ handler' = "flipbook-from-url"
    /\ IF hasUrl
       THEN Await("download") /\ UNCHANGED fileVars
       ELSE Reject("Preview URL is required")
    /\ UNCHANGED <<described, flipVars, chatVars>>

\* the download of the preview settled; on success the temp file is written,
\* which fails when the temp directory does not exist
DownloadSettled(o, dirOk) ==
    /\ hpc = "download"
    /\ IF o # "ok"
       THEN Fail(UpstreamError(o))
       ELSE IF ~dirOk
       THEN Fail(PlainError("ENOENT: no such file or directory, open"))
       ELSE /\ tempFile' = "present"
            /\ Await("create")
            /\ UNCHANGED uploadFile
    /\ UNCHANGED <<handler, described, flipVars, chatVars>>

\* the create call settled
CreateSettled(o) ==
    /\ hpc = "create"
    /\ handler \in FlipHandlers
    /\ createLog' = [kind |-> o]
    /\ IF o \in {"http", "network"}
       THEN Fail(UpstreamError(o))
       ELSE IF o = "noid"
       THEN Fail(PlainError("Invalid or unexpected response from FlippingBook API"))
       ELSE Await("wait") /\ UNCHANGED fileVars
    /\ UNCHANGED <<handler, described, attempts, waits, pollLog, flipbookUrl, chatVars>>

\* the 5-second timer fired and the status request goes out
WaitElapsed ==
    /\ hpc = "wait"
    /\ waits' = waits + 1
    /\ Await("poll")
    /\ UNCHANGED <<handler, described, fileVars, createLog, attempts, pollLog, flipbookUrl,
                   chatVars>>

\* the status request settled: the rest of the loop body, and of the handler
\* when the loop ends
PollSettled(o) ==
    /\ hpc = "poll"
    /\ pollLog' = Append(pollLog, o)
    /\ IF PollErrorOf(handler, o) # NoValue
       THEN /\ Fail(PollErrorOf(handler, o))
            /\ UNCHANGED <<attempts, flipbookUrl>>
       ELSE IF IsReady(o)
       THEN /\ flipbookUrl' = ViewUrl(o.hashId)
            /\ Finish([status |-> 200, body |-> [kind |-> "flipbook", success |-> TRUE,
                                                 flipbookUrl |-> flipbookUrl']])
            /\ UNCHANGED attempts
       ELSE /\ attempts' = attempts + 1
            /\ UNCHANGED flipbookUrl
            /\ IF attempts' < PollLimit
               THEN Await("wait") /\ UNCHANGED fileVars
               ELSE Fail(PlainError("Flipbook processing timed out"))
    /\ UNCHANGED <<handler, described, createLog, waits, chatVars>>

(***************************************************************************)
(* getPublicationDetails and GET /api/check-flipbook-status/:flipbookId    *)
(***************************************************************************)
\* the default of the retries parameter
PubRetries == 3
\* delay(2000 * (4 - retries))
PubBackoffMs == 2000
PubBackoffSpan == 4

\* the catch clause's test with the bound off by one
PubShouldRetryAtZero(n) == n >= 0

\* the catch clause's test: retry whatever the error while retries remain
PubShouldRetry(n) == n > 0

\* the delay before the retry of a call that has n retries left
PubDelay(n) == PubBackoffMs * (PubBackoffSpan - n)

\* the top-level call: retries = 3, and the first request goes out
PubCall ==
    /\ pubPc' = "requesting"
    /\ pubRetries' = PubRetries
    /\ pubRequests' = 1
    /\ pubLog' = <<>>
    /\ pubDelays' = <<>>
    /\ pubValue' = NoValue

\* the await of axios.get resumes with outcome o: return, or catch
PubResponse(o) ==
    /\ pubPc = "requesting"
    /\ pubLog' = Append(pubLog, o)
    /\ IF o.type \notin {"http", "network"}
       THEN /\ pubPc' = "resolved"
            /\ pubValue' = o
            /\ UNCHANGED <<pubRetries, pubRequests, pubDelays>>
       ELSE IF PubShouldRetry(pubRetries)
       THEN /\ pubPc' = "delaying"
            /\ pubDelays' = Append(pubDelays, PubDelay(pubRetries))
            /\ UNCHANGED <<pubRetries, pubRequests, pubValue>>
       ELSE /\ pubPc' = "rejected"
            /\ pubValue' = UpstreamError(o.type)
            /\ UNCHANGED <<pubRetries, pubRequests, pubDelays>>

\* the delay elapsed: the recursive call with retries - 1 issues its request
PubRetry ==
    /\ pubPc = "delaying"
    /\ pubPc' = "requesting"
    /\ pubRetries' = pubRetries - 1
    /\ pubRequests' = pubRequests + 1
    /\ UNCHANGED <<pubLog, pubDelays, pubValue>>

PubIdle ==
    /\ pubPc = "idle"
    /\ pubRetries = 0
    /\ pubRequests = 0
    /\ pubLog = <<>>
    /\ pubDelays = <<>>
    /\ pubValue = NoValue

\* the catch clause of GET /api/check-flipbook-status/:flipbookId
StatusFailure ==
    [status |-> 500,
     body |-> [kind |-> "error", error |-> <<"Failed to check flipbook status">>,
               details |-> <<>>, responseData |-> <<>>]]

\* publicationDetails?.publication?.state || 'Unknown'
StatusOf(o) == IF o.type = "publication" THEN o.state ELSE "Unknown"

\* GET /api/check-flipbook-status/:flipbookId awaits getPublicationDetails
AcceptStatus ==
    /\ handler = "none"
    /\ handler' = "check-flipbook-status"
    /\ Await("getPublicationDetails")
    /\ PubCall
    /\ UNCHANGED <<described, fileVars>>

\* getPublicationDetails settled and the handler answers
StatusSettled ==
    /\ hpc = "getPublicationDetails"
    /\ pubPc \in {"resolved", "rejected"}
    /\ IF pubPc = "rejected"
       THEN FailWith(StatusFailure, pubValue)
       ELSE Finish([status |-> 200,
                    body |-> [kind |-> "status", status |-> StatusOf(pubValue),
                              details |-> pubValue]])
    /\ UNCHANGED <<handler, described, pubVars>>

(***************************************************************************)
(* The preview store: POST /api/generate-pdf-preview, GET                  *)
(* /api/pdf-preview/:previewId and cleanupPreviews                         *)
(***************************************************************************)
\* the age past which cleanupPreviews removes a preview, in ms
RetentionMs == 3600000
\* the period of setInterval(cleanupPreviews, ...), in ms
SweepIntervalMs == 3600000
TickMs == RetentionMs \div 2

\* path.join(__dirname, 'pdf-previews', `${previewId}.pdf`)
PathOf(id) == <<"pdf-previews/", id, ".pdf">>

\* pdfPreviews.get(id): the path, or <<>> for undefined
Lookup(map, id) ==
    IF \E i \in 1..Len(map) : map[i].id = id
    THEN map[CHOOSE i \in 1..Len(map) : map[i].id = id].path
    ELSE <<>>

\* the age test with the retention taken in seconds
IsExpiredInSeconds(t, mtimeMs) == t - mtimeMs > 3600

\* now - fs.statSync(path).mtimeMs > 3600000
IsExpired(t, mtimeMs) == t - mtimeMs > RetentionMs

\* f without the key k
Without(f, k) == [x \in DOMAIN f \ {k} |-> f[x]]

RECURSIVE UnlinkOnly(_, _, _)
\* a sweep that unlinks the file of an over-age entry and keeps the entry
UnlinkOnly(map, fs, t) ==
    IF map = <<>> THEN [map |-> <<>>, files |-> fs, threw |-> FALSE]
    ELSE LET e == Head(map) IN
         IF e.path \notin DOMAIN fs
         THEN [map |-> map, files |-> fs, threw |-> TRUE]
         ELSE LET old  == IsExpired(t, fs[e.path])
                  rest == UnlinkOnly(Tail(map), IF old THEN Without(fs, e.path) ELSE fs, t)
              IN  [map |-> <<e>> \o rest.map, files |-> rest.files, threw |-> rest.threw]

RECURSIVE cleanupPreviews(_, _, _)
\* pdfPreviews.forEach in insertion order: statSync throws for a missing file
\* and ends the pass; an over-age entry loses its file, then its map entry
cleanupPreviews(map, fs, t) ==
    IF map = <<>> THEN [map |-> <<>>, files |-> fs, threw |-> FALSE]
    ELSE LET e == Head(map) IN
         IF e.path \notin DOMAIN fs
         THEN [map |-> map, files |-> fs, threw |-> TRUE]
         ELSE LET old  == IsExpired(t, fs[e.path])
                  rest == cleanupPreviews(Tail(map), IF old THEN Without(fs, e.path) ELSE fs, t)
              IN  [map   |-> IF old THEN rest.map ELSE <<e>> \o rest.map,
                   files |-> rest.files,
                   threw |-> rest.threw]

NotServed ==
    [id |-> 0, status |-> 0, path |-> <<>>, afterSweep |-> FALSE, inWindow |-> FALSE,
     sent |-> "none"]

\* POST /api/generate-pdf-preview passes validation: a fresh uuid, and the
\* document is built and piped to its file
PreviewRequest ==
    /\ processUp
    /\ nextId <= MaxPreviews
    /\ writing' = writing \cup {nextId}
    /\ nextId' = nextId + 1
    /\ UNCHANGED <<now, processUp, pdfPreviews, files, nextSweepAt, served, born, swept>>

\* the write stream's 'finish': the file is complete, and only now registered
WriteFinished(id) ==
    /\ processUp
    /\ id \in writing
    /\ writing' = writing \ {id}
    /\ files' = [p \in DOMAIN files \cup {PathOf(id)} |->
                    IF p = PathOf(id) THEN now ELSE files[p]]
    /\ pdfPreviews' = Append(pdfPreviews, [id |-> id, path |-> PathOf(id)])
    /\ born' = [i \in DOMAIN born \cup {id} |-> IF i = id THEN now ELSE born[i]]
    /\ UNCHANGED <<now, processUp, nextId, nextSweepAt, served, swept>>

\* GET /api/pdf-preview/:previewId, up to the handler's return: the 404 of
\* an id the map does not hold, or res.sendFile(pdfPath) called on a response
\* whose status is 200, the file itself being opened later
GetPreview(id) ==
    /\ processUp
    /\ LET pdfPath == Lookup(pdfPreviews, id) IN
         served' = [id         |-> id,
                    status     |-> IF pdfPath = <<>> THEN 404 ELSE 200,
                    path       |-> pdfPath,
                    afterSweep |-> id \in swept,
                    inWindow   |-> id \in DOMAIN born /\ now - born[id] <= RetentionMs,
                    sent       |-> IF pdfPath = <<>> THEN "none" ELSE "pending"]
    /\ UNCHANGED <<now, processUp, nextId, writing, pdfPreviews, files, nextSweepAt,
                   born, swept>>

\* res.sendFile gets to the file, in a later turn of the event loop than the
\* handler that called it: the file is streamed, or it is not there any more
\* and the request ends in sendFile's error
SendFile ==
    /\ processUp
    /\ served.sent = "pending"
    /\ served' = [served EXCEPT
                     !.sent = IF served.path \in DOMAIN files THEN "file" ELSE "error"]
    /\ UNCHANGED <<now, processUp, nextId, writing, pdfPreviews, files, nextSweepAt,
                   born, swept>>

\* the interval timer is due and cleanupPreviews runs, to its end or to the
\* exception that nothing catches
Sweep ==
    /\ processUp
    /\ now >= nextSweepAt
    /\ LET pass == cleanupPreviews(pdfPreviews, files, now) IN
         /\ pdfPreviews' = pass.map
         /\ files' = pass.files
         /\ processUp' = ~pass.threw
    /\ nextSweepAt' = now + SweepIntervalMs
    /\ swept' = swept \cup { pdfPreviews[i].id : i \in
                    { j \in 1..Len(pdfPreviews) :
                        /\ pdfPreviews[j].path \in DOMAIN files
                        /\ now - files[pdfPreviews[j].path] > 3600000 } }
    /\ UNCHANGED <<now, nextId, writing, served, born>>

\* something other than this process removes a preview's file
FileRemoved(path) ==
    /\ processUp
    /\ path \in DOMAIN files
    /\ files' = Without(files, path)
    /\ UNCHANGED <<now, processUp, nextId, writing, pdfPreviews, nextSweepAt, served,
                   born, swept>>

\* time passes
Tick ==
    /\ now < MaxTicks * TickMs
    /\ now' = now + TickMs
    /\ UNCHANGED <<processUp, nextId, writing, pdfPreviews, files, nextSweepAt, served,
                   born, swept>>

(***************************************************************************)
(* The document assembler: POST /api/pdf, /api/generate-pdf and            *)
(* /api/generate-pdf-preview                                               *)
(***************************************************************************)
DocHandlers == {"pdf", "generate-pdf", "generate-pdf-preview"}

\* the keys a storyData object can have, as their parts
StoryKeys == { <<"chapter", "1">>, <<"chapter", "2">>, <<"chapter", "1", "Name">>, <<"summary">> }

\* Object.keys(storyData): distinct keys in insertion order
KeyLists ==
    { ks \in SeqsUpTo(StoryKeys, MaxStoryKeys) :
        \A i, j \in 1..Len(ks) : i # j => ks[i] # ks[j] }

\* imageUrls: undefined, or an array of urls and falsy entries
UrlLists ==
    { [present |-> FALSE, list |-> <<>>] }
    \cup { [present |-> TRUE, list |-> l] : l \in SeqsUpTo({"url", ""}, MaxUrls) }

\* req.body of the three endpoints
RequestBodies ==
    [storyData : {TRUE}, keys : KeyLists, imageUrls : UrlLists, storyName : BOOLEAN]
    \cup [storyData : {FALSE}, keys : { <<>> }, imageUrls : UrlLists, storyName : BOOLEAN]

NoBody ==
    [storyData |-> FALSE, keys |-> <<>>, imageUrls |-> [present |-> FALSE, list |-> <<>>],
     storyName |-> FALSE]

\* storyData[key]
ValueOf(key) ==
    CASE key = <<"chapter", "1">>         -> <<"a", "\n", "\n", "b">>
      [] key = <<"chapter", "2">>         -> <<"c">>
      [] key = <<"chapter", "1", "Name">> -> <<"One">>
      [] OTHER                            -> <<"s">>

\* the filter without its second test
IsChapterKeyNamesToo(key) == key[1] = "chapter"

\* key.startsWith('chapter') && !key.endsWith('Name')
IsChapterKey(key) == key[1] = "chapter" /\ key[Len(key)] # "Name"

chapterKeys(body) == SelectSeq(body.keys, IsChapterKey)

\* storyData[`${chapterKey}Name`]
chapterName(body, key) ==
    IF \E i \in 1..Len(body.keys) : body.keys[i] = key \o <<"Name">>
    THEN ValueOf(key \o <<"Name">>)
    ELSE <<"undefined">>

\* one call on the PDFDocument, made while chapter n of the loop is written
DocItem(op, n, key, text) == [op |-> op, chapter |-> n, key |-> key, text |-> text]

\* doc.text(storyName, { align: 'center' })
TitleItem(body) ==
    DocItem("title", 0, <<>>, IF body.storyName THEN <<"story name">> ELSE <<"undefined">>)

\* doc.text(`Chapter ${i + 1}: ${chapterName}`)
HeadingItem(body, n) ==
    DocItem("heading", n, chapterKeys(body)[n],
            <<"Chapter", ToString(n), ":">> \o chapterName(body, chapterKeys(body)[n]))

\* chapterContent.split('\n\n').forEach(paragraph => doc.text(paragraph))
BodyItems(body, n) ==
    LET key        == chapterKeys(body)[n]
        paragraphs == SplitBlank(ValueOf(key))
    IN  [j \in 1..Len(paragraphs) |-> DocItem("paragraph", n, key, paragraphs[j])]

\* doc.addPage()
PageItem(body, n) == DocItem("addPage", n, chapterKeys(body)[n], <<>>)

\* if (i < chapterKeys.length - 1) doc.addPage()
PageBreak(body, n) ==
    IF n < Len(chapterKeys(body)) THEN << PageItem(body, n) >> ELSE <<>>

\* the loop body with the chapter's text written before its heading
BeforeImageBodyFirst(h, body, n) ==
    CASE h = "pdf"          -> << HeadingItem(body, n) >>
      [] h = "generate-pdf" -> BodyItems(body, n) \o << HeadingItem(body, n), PageItem(body, n) >>
      [] OTHER              -> BodyItems(body, n) \o << HeadingItem(body, n) >>

\* the loop body of chapter n, up to the test of the chapter's image url
BeforeImage(h, body, n) ==
    CASE h = "pdf"          -> << HeadingItem(body, n) >>
      [] h = "generate-pdf" -> << HeadingItem(body, n) >> \o BodyItems(body, n)
                                   \o << PageItem(body, n) >>
      [] OTHER              -> << HeadingItem(body, n) >> \o BodyItems(body, n)

\* how downloading and decoding one image can end: the buffer is a picture,
\* the request fails, the buffer is empty, or its bytes are no picture
ImageOutcomes == {"ok", "http", "network", "empty", "undecodable"}

\* /api/pdf has no try around the download and doc.image
ImageThrows(h, o) == h = "pdf" /\ o # "ok"

\* a catch clause that writes nothing in any handler
ImageItemsSilent(h, body, n, o) ==
    IF o = "ok" THEN << DocItem("image", n, chapterKeys(body)[n], <<>>) >> ELSE <<>>

\* what the image step of chapter n writes: the picture, the red
\* 'Error loading image' of /api/generate-pdf's catch clause, or nothing in
\* /api/generate-pdf-preview, whose catch clause only logs
ImageItems(h, body, n, o) ==
    IF o = "ok" THEN << DocItem("image", n, chapterKeys(body)[n], <<>>) >>
    ELSE IF h = "generate-pdf"
    THEN << DocItem("placeholder", n, chapterKeys(body)[n], <<"Error loading image">>) >>
    ELSE <<>>

\* the loop body of chapter n from the image on
AfterImage(h, body, n, imageItems) ==
    IF h = "pdf" THEN imageItems \o BodyItems(body, n) \o PageBreak(body, n)
    ELSE imageItems \o PageBreak(body, n)

\* imageUrls[i] is a url
HasUrl(body, n) == n <= Len(body.imageUrls.list) /\ body.imageUrls.list[n] = "url"

RECURSIVE Assemble(_, _, _, _)
\* the for loop from chapter n on, with d written so far: it runs to the next
\* await of a download, to its end, or to a TypeError on imageUrls[i] when
\* imageUrls is undefined
Assemble(h, body, n, d) ==
    IF n > Len(chapterKeys(body)) THEN [pc |-> "end", chapter |-> n, doc |-> d]
    ELSE IF ~body.imageUrls.present /\ h # "pdf"
    THEN [pc |-> "threw", chapter |-> n, doc |-> d]
    ELSE LET d1 == d \o BeforeImage(h, body, n) IN
         IF ~body.imageUrls.present THEN [pc |-> "threw", chapter |-> n, doc |-> d1]
         ELSE IF HasUrl(body, n) THEN [pc |-> "await", chapter |-> n, doc |-> d1]
         ELSE Assemble(h, body, n + 1, d1 \o AfterImage(h, body, n, <<>>))

\* the validation of /api/generate-pdf-preview without its test of storyName
ValidBodyNameOptional(h, body) ==
    CASE h = "pdf"          -> body.storyData
      [] h = "generate-pdf" -> body.storyData /\ body.imageUrls.present
      [] OTHER              -> body.storyData

\* the validation at the top of each handler
ValidBody(h, body) ==
    CASE h = "pdf"          -> body.storyData
      [] h = "generate-pdf" -> body.storyData /\ body.imageUrls.present
      [] OTHER              -> body.storyData /\ body.storyName

ValidationMessage(h) ==
    CASE h = "pdf"          -> "Story content is required"
      [] h = "generate-pdf" -> "Story content and images are required"
      [] OTHER              -> "Story content and name are required"

\* the catch clauses of /api/generate-pdf and /api/generate-pdf-preview
DocFailure(h) ==
    [status |-> 500,
     body |-> [kind |-> "error",
               error |-> IF h = "generate-pdf"
                         THEN <<"An error occurred while generating the PDF.">>
                         ELSE <<"An error occurred while generating the PDF preview.">>,
               details |-> <<>>, responseData |-> <<>>]]

\* an exception leaves the async handler: its promise rejects, nothing answers
Escape ==
    /\ hpc' = "done"
    /\ handlerEnd' = "threw"
    /\ UNCHANGED <<response, awaited, caught, fileVars>>

\* the handler goes on from where the loop stopped
Conclude(h, run) ==
    /\ doc' = run.doc
    /\ chapterIdx' = run.chapter
    /\ CASE run.pc = "await" ->
              /\ Await("downloadImage")
              /\ UNCHANGED <<docEnded, writing, fileVars>>
         [] run.pc = "threw" ->
              /\ IF h = "pdf" THEN Escape
                 ELSE FailWith(DocFailure(h),
                               TypeErrorOf("Cannot read properties of undefined (reading '0')"))
              /\ UNCHANGED <<docEnded, writing>>
         [] OTHER ->
              /\ docEnded' = TRUE
              /\ IF h = "generate-pdf-preview"
                 THEN /\ Await("writeStream")
                      /\ writing' = writing \cup {previewId'}
                      /\ UNCHANGED fileVars
                 ELSE /\ Finish([status |-> 200, body |-> [kind |-> "pdf", document |-> run.doc]])
                      /\ UNCHANGED writing

\* one of the three endpoints is called with body
AcceptDocument(h, body) ==
    /\ handler = "none"
    /\ h \in DocHandlers
    /\ handler' = h
    /\ reqBody' = body
    /\ imageLog' = <<>>
    /\ IF ~ValidBody(h, body)
       THEN /\ Reject(ValidationMessage(h))
            /\ UNCHANGED <<doc, chapterIdx, docEnded, previewId, nextId, writing>>
       ELSE /\ previewId' = IF h = "generate-pdf-preview" THEN nextId ELSE 0
            /\ nextId' = IF h = "generate-pdf-preview" THEN nextId + 1 ELSE nextId
            /\ Conclude(h, Assemble(h, body, 1, << TitleItem(body) >>))
    /\ UNCHANGED described

\* the download of the chapter's image settled, and the loop goes on
ImageSettled(o) ==
    /\ hpc = "downloadImage"
    /\ UNCHANGED <<handler, described, reqBody, previewId, nextId>>
    /\ imageLog' = Append(imageLog, [chapter |-> chapterIdx, outcome |-> o])
    /\ IF ImageThrows(handler, o)
       THEN Escape /\ UNCHANGED <<doc, chapterIdx, docEnded, writing>>
       ELSE Conclude(handler,
                     Assemble(handler, reqBody, chapterIdx + 1,
                              doc \o AfterImage(handler, reqBody, chapterIdx,
                                                ImageItems(handler, reqBody, chapterIdx, o))))

\* the write stream's 'finish' in the handler: register the preview, answer
PreviewWritten ==
    /\ hpc = "writeStream"
    /\ WriteFinished(previewId)
    /\ Finish([status |-> 200, body |-> [kind |-> "preview", previewId |-> previewId]])
    /\ UNCHANGED <<handler, described, docVars>>

DocumentIdle ==
    /\ reqBody = NoBody
    /\ doc = <<>>
    /\ chapterIdx = 0
    /\ docEnded = FALSE
    /\ imageLog = <<>>
    /\ previewId = 0

(***************************************************************************)
(* generateStoryName                                                       *)
(***************************************************************************)
\* the words the filter drops
StopWords == { "the", "a", "an", "is", "was", "and", "of", "in", "on" }

\* what a summary is made of here: two words, a space and a newline
SummaryAtoms == { "The", "fox", " ", "\n" }

\* word.toLowerCase(), character by character
toLowerCase(word) == [i \in 1..Len(word) |-> IF word[i] = "The" THEN "the" ELSE word[i]]

RECURSIVE Split(_, _)
\* str.split(sep) for a one-character separator: k separators give k + 1
\* pieces, empty ones included
Split(str, seps) ==
    IF \A i \in 1..Len(str) : str[i] \notin seps THEN << str >>
    ELSE LET i == CHOOSE j \in 1..Len(str) :
                      str[j] \in seps /\ \A k \in 1..(j - 1) : str[k] \notin seps
         IN  << SubSeq(str, 1, i - 1) >> \o Split(SubSeq(str, i + 1, Len(str)), seps)

RECURSIVE Join(_, _)
\* words.join(sep)
Join(words, sep) ==
    IF words = <<>> THEN <<>>
    ELSE IF Len(words) = 1 THEN words[1]
    ELSE words[1] \o << sep >> \o Join(Tail(words), sep)

\* [...].includes(word.toLowerCase()): the word is one of the listed words
IsStopWord(word) == Len(word) = 1 /\ toLowerCase(word)[1] \in StopWords

\* the name is cut after this many words
NameWords == 3

\* split on ' ', drop the listed words, keep the first three, join with ' '
generateStoryName(summary) ==
    LET words         == Split(summary, {" "})
        filteredWords == SelectSeq(words, LAMBDA word : ~IsStopWord(word))
        nameWords     == SubSeq(filteredWords, 1,
                                IF Len(filteredWords) < NameWords THEN Len(filteredWords)
                                ELSE NameWords)
    IN  Join(nameWords, " ")

NameIdle ==
    /\ nameInput = <<>>
    /\ nameResult = NoValue

(***************************************************************************)
(* Initial conditions                                                      *)
(***************************************************************************)
RequestIdle ==
    /\ handler = "none"
    /\ hpc = "idle"
    /\ response = NoReply
    /\ handlerEnd = "running"
    /\ described = NoValue
    /\ awaited = <<>>
    /\ caught = NoValue
    /\ tasks = <<>>
    /\ PubIdle
    /\ chatVariant = "index.js"
    /\ promptOk = TRUE
    /\ DocumentIdle
    /\ uploadFile = "none"
    /\ tempFile = "none"
    /\ createLog = NoValue
    /\ attempts = 0
    /\ waits = 0
    /\ pollLog = <<>>
    /\ flipbookUrl = <<>>
    /\ ChatIdle

DescribeIdle ==
    /\ descReply = NoValue
    /\ descResult = NoValue

\* the process has just started: the map is empty and the timer is armed
PreviewIdle ==
    /\ now = 0
    /\ processUp = TRUE
    /\ nextId = 1
    /\ writing = {}
    /\ pdfPreviews = <<>>
    /\ files = [p \in {} |-> 0]
    /\ nextSweepAt = SweepIntervalMs
    /\ served = NotServed
    /\ born = [i \in {} |-> 0]
    /\ swept = {}

(***************************************************************************)
(* The request-handling specification: one request, from its arrival to    *)
(* the end of its handler                                                  *)
(***************************************************************************)
Init == RequestIdle /\ DescribeIdle /\ PreviewIdle /\ NameIdle

\* what the story handlers leave alone
outsideStory == <<descVars, prevVars, nameVars, docVars, pubVars, variantVars>>

elsewhere == <<outsideStory, tasks>>

ChatRequest == (\E h \in ChatHandlers : AcceptChat(h)) /\ UNCHANGED elsewhere
UploadRequest ==
    /\ \E h \in UploadHandlers, hasFile, formOk \in BOOLEAN : AcceptUpload(h, hasFile, formOk)
    /\ UNCHANGED elsewhere
FromUrlRequest == (\E hasUrl \in BOOLEAN : AcceptFromUrl(hasUrl)) /\ UNCHANGED elsewhere
ChatReplyStep ==
    /\ chatPc = "requesting"
    /\ \E o \in ChatOutcomes : ChatResponse(o)
    /\ UNCHANGED <<reqVars, fileVars, flipVars, elsewhere>>
ChatRetryStep == ChatRetry /\ UNCHANGED <<reqVars, fileVars, flipVars, elsewhere>>
ChatSettledStep == ChatSettled /\ UNCHANGED elsewhere
DescribeStep == (\E reply \in DescribeReplies : DescribeSettled(reply)) /\ UNCHANGED elsewhere
SummaryStep == (\E o \in UpstreamResults : SummarySettled(o)) /\ UNCHANGED outsideStory
TaskStep ==
    /\ \E i \in 1..Len(tasks), o \in UpstreamResults : TaskSettled(i, o)
    /\ UNCHANGED outsideStory
DownloadStep ==
    /\ \E o \in UpstreamResults, dirOk \in BOOLEAN : DownloadSettled(o, dirOk)
    /\ UNCHANGED elsewhere
CreateStep == (\E o \in CreateOutcomes : CreateSettled(o)) /\ UNCHANGED elsewhere
WaitStep == WaitElapsed /\ UNCHANGED elsewhere
PollStep == (\E o \in PollOutcomes : PollSettled(o)) /\ UNCHANGED elsewhere

RegenerateImageRequest ==
    AcceptRegenerateImage /\ UNCHANGED <<flipVars, chatVars, elsewhere>>
GenerateImageStep ==
    /\ \E o \in UpstreamResults : GenerateImageSettled(o)
    /\ UNCHANGED <<flipVars, chatVars, elsewhere>>

\* what GET /api/check-flipbook-status leaves alone
outsideStatus ==
    <<flipVars, chatVars, descVars, prevVars, nameVars, docVars, variantVars, tasks>>

StatusRequest == AcceptStatus /\ UNCHANGED outsideStatus
PubReplyStep ==
    /\ \E o \in PollOutcomes : PubResponse(o)
    /\ UNCHANGED <<reqVars, fileVars, outsideStatus>>
PubRetryStep == PubRetry /\ UNCHANGED <<reqVars, fileVars, outsideStatus>>
StatusSettledStep == StatusSettled /\ UNCHANGED outsideStatus

\* what the document handlers leave alone
outsideDocument ==
    <<flipVars, chatVars, descVars, nameVars, pubVars, variantVars, tasks,
      now, processUp, pdfPreviews, files, nextSweepAt, served, born, swept>>

DocumentRequest ==
    /\ handler = "none"
    /\ \E h \in DocHandlers, body \in RequestBodies : AcceptDocument(h, body)
    /\ UNCHANGED outsideDocument
ImageStep == (\E o \in ImageOutcomes : ImageSettled(o)) /\ UNCHANGED outsideDocument
PreviewWrittenStep ==
    PreviewWritten
    /\ UNCHANGED <<flipVars, chatVars, descVars, nameVars, pubVars, variantVars, tasks>>

Next ==
    \/ ChatRequest
    \/ UploadRequest
    \/ FromUrlRequest
    \/ ChatReplyStep
    \/ ChatRetryStep
    \/ ChatSettledStep
    \/ DescribeStep
    \/ SummaryStep
    \/ TaskStep
    \/ DownloadStep
    \/ CreateStep
    \/ WaitStep
    \/ PollStep
    \/ DocumentRequest
    \/ ImageStep
    \/ PreviewWrittenStep
    \/ RegenerateImageRequest
    \/ GenerateImageStep
    \/ StatusRequest
    \/ PubReplyStep
    \/ PubRetryStep
    \/ StatusSettledStep

Spec == Init /\ [][Next]_vars

(***************************************************************************)
(* describeImage applied to every completion within the bound              *)
(***************************************************************************)
ReplyChars == { "a", "\n" }

DescribeInputs ==
    [shape : DescribeShapes \ {"string"}, content : { <<>> }]
    \cup [shape : {"string"}, content : SeqsUpTo(ReplyChars, MaxReplyLen)]
    \cup [shape : {"string"}, content : SeqsUpTo(ReplyChars \cup {" "}, MaxSpacedLen)]

InitDescribe ==
    /\ RequestIdle
    /\ PreviewIdle
    /\ NameIdle
    /\ descReply \in DescribeInputs
    /\ descResult = NoValue

DescribeCall ==
    /\ descResult = NoValue
    /\ descResult' = describeImage(descReply)
    /\ UNCHANGED <<descReply, handlerVars, prevVars, nameVars>>

NextDescribe == DescribeCall

SpecDescribe == InitDescribe /\ [][NextDescribe]_vars

(***************************************************************************)
(* The preview store under requests, sweeps and the passing of time        *)
(***************************************************************************)
InitPreview == RequestIdle /\ DescribeIdle /\ PreviewIdle /\ NameIdle

outsidePreview == <<handlerVars, descVars, nameVars>>

PreviewRequestStep == PreviewRequest /\ UNCHANGED outsidePreview
WriteFinishedStep == (\E id \in writing : WriteFinished(id)) /\ UNCHANGED outsidePreview
GetPreviewStep == (\E id \in 1..MaxPreviews : GetPreview(id)) /\ UNCHANGED outsidePreview
SendFileStep == SendFile /\ UNCHANGED outsidePreview
SweepStep == Sweep /\ UNCHANGED outsidePreview
TickStep == Tick /\ UNCHANGED outsidePreview

NextPreview ==
    \/ PreviewRequestStep
    \/ WriteFinishedStep
    \/ GetPreviewStep
    \/ SendFileStep
    \/ SweepStep
    \/ TickStep

SpecPreview == InitPreview /\ [][NextPreview]_vars

(***************************************************************************)
(* The preview store when files of pdf-previews/ can vanish under it       *)
(***************************************************************************)
FileRemovedStep ==
    /\ \E id \in 1..MaxPreviews : FileRemoved(PathOf(id))
    /\ UNCHANGED outsidePreview

NextPreviewEnv ==
    \/ PreviewRequestStep
    \/ WriteFinishedStep
    \/ GetPreviewStep
    \/ SendFileStep
    \/ SweepStep
    \/ TickStep
    \/ FileRemovedStep

SpecPreviewEnv == InitPreview /\ [][NextPreviewEnv]_vars

(***************************************************************************)
(* generateStoryName applied to every summary within the bound             *)
(***************************************************************************)
InitName ==
    /\ RequestIdle
    /\ DescribeIdle
    /\ PreviewIdle
    /\ nameInput \in SeqsUpTo(SummaryAtoms, MaxSummaryLen)
    /\ nameResult = NoValue

NameCall ==
    /\ nameResult = NoValue
    /\ nameResult' = [kind |-> "name", value |-> generateStoryName(nameInput)]
    /\ UNCHANGED <<nameInput, handlerVars, descVars, prevVars>>

NextName == NameCall

SpecName == InitName /\ [][NextName]_vars

(***************************************************************************)
(* makeChatRequest on its own, in the variant of index.js and in that of   *)
(* part_000                                                                *)
(***************************************************************************)
Variants == { "index.js", "part_000" }

\* everything but the helper's own state and the choice of the variant
outsideBackoff ==
    <<reqVars, fileVars, flipVars, docVars, pubVars, descVars, prevVars, nameVars, tasks>>

InitBackoff ==
    /\ handler = "none"
    /\ hpc = "idle"
    /\ response = NoReply
    /\ handlerEnd = "running"
    /\ described = NoValue
    /\ awaited = <<>>
    /\ caught = NoValue
    /\ tasks = <<>>
    /\ PubIdle
    /\ DocumentIdle
    /\ uploadFile = "none"
    /\ tempFile = "none"
    /\ createLog = NoValue
    /\ attempts = 0
    /\ waits = 0
    /\ pollLog = <<>>
    /\ flipbookUrl = <<>>
    /\ ChatIdle
    /\ DescribeIdle
    /\ PreviewIdle
    /\ NameIdle
    /\ chatVariant \in Variants
    /\ promptOk \in BOOLEAN

BackoffCall ==
    /\ chatPc = "idle"
    /\ ChatCall
    /\ UNCHANGED <<variantVars, outsideBackoff>>

BackoffReply ==
    /\ chatVariant = "index.js"
    /\ chatPc = "requesting"
    /\ \E o \in ChatOutcomes : ChatResponse(o)
    /\ UNCHANGED <<variantVars, outsideBackoff>>

BackoffHintedReply ==
    /\ chatVariant = "part_000"
    /\ \E o \in HintedOutcomes : HintedResponse(o)
    /\ UNCHANGED <<variantVars, outsideBackoff>>

BackoffRetry == ChatRetry /\ UNCHANGED <<variantVars, outsideBackoff>>

NextBackoff ==
    \/ BackoffCall
    \/ BackoffReply
    \/ BackoffHintedReply
    \/ BackoffRetry

SpecBackoff == InitBackoff /\ [][NextBackoff]_vars

(***************************************************************************)
(* Properties of the request-handling specification                        *)
(***************************************************************************)
LastOf(log) == log[Len(log)]

\* C1, as claimed: one top-level call of makeChatRequest issues at most
\* MAX_RETRIES chat-completion requests, the first attempt included.
C1_AtMostMaxRetriesRequests ==
    requests <= MAX_RETRIES

\* C1, amended: one top-level call of makeChatRequest issues at most
\* MAX_RETRIES + 1 chat-completion requests: the first attempt and at most
\* MAX_RETRIES retries, each request being the one of call number retries + 1.
C1_AtMostMaxRetriesPlusOneRequests ==
    chatPc # "idle" =>
        /\ requests <= MAX_RETRIES + 1
        /\ requests = retries + 1
        /\ Len(chatLog) <= requests

\* the request after MAX_RETRIES retries was rate limited too, and the call gave up
C1_SixthRequestRateLimited ==
    /\ chatPc = "rejected"
    /\ requests = MAX_RETRIES + 1
    /\ LastOf(chatLog).status = RateLimited

\* C2: after an attempt that failed with a status other than 429, or with a
\* network error, makeChatRequest issues no further request and rejects
\* with that attempt's error, unchanged.
C2_NoRetryOfOtherFailures ==
    \A i \in 1..Len(chatLog) :
        (\/ chatLog[i].type = "network"
         \/ chatLog[i].type = "http" /\ chatLog[i].status # 429)
        => /\ i = Len(chatLog)
           /\ requests = i
           /\ chatPc = "rejected"
           /\ chatValue = ChatErrorOf(chatLog[i])

\* a 500 that follows a retried 429 ended the call
C2_ServerErrorAfterRetry ==
    /\ chatPc = "rejected"
    /\ Len(chatLog) >= 2
    /\ chatLog[1].status = 429
    /\ LastOf(chatLog).type = "http"
    /\ LastOf(chatLog).status = 500

\* C3, as claimed: in both create-flipbook handlers, when the create call
\* returned a job id and every status poll returned a reply that is not
\* Ready, the handler makes exactly 10 polls, each after a wait, and then
\* answers with the timeout outcome and not with an upstream error.
C3_TenPollsThenTimeout ==
    ( /\ handler \in FlipHandlers
      /\ hpc = "done"
      /\ createLog = [kind |-> "id"]
      /\ \A i \in 1..Len(pollLog) :
            /\ pollLog[i].type \in {"publication", "nopublication"}
            /\ pollLog[i].state # "Ready" )
    => /\ Len(pollLog) = 10
       /\ waits = 10
       /\ response.status = 500
       /\ response.body.details = <<"Flipbook processing timed out">>
       /\ response.body.responseData = <<>>

\* C4: a poll that returns state Ready is the handler's last one, whichever
\* of polls 1 to 10 it is: the handler answers success with the view URL of
\* that poll's hashId, without another wait or poll.
C4_ReadyAnswersAtOnce ==
    \A i \in 1..Len(pollLog) :
        (pollLog[i].type = "publication" /\ pollLog[i].state = "Ready")
        => /\ i = Len(pollLog)
           /\ i <= 10
           /\ waits = i
           /\ hpc = "done"
           /\ response.status = 200
           /\ response.body.kind = "flipbook"
           /\ response.body.success
           /\ response.body.flipbookUrl =
                  <<"https://online.flippingbook.com/view/", pollLog[i].hashId, "/">>

\* the tenth poll returned Ready, with another hashId than the polls before it
C4_ReadyOnTenthPoll ==
    /\ Len(pollLog) = 10
    /\ pollLog[10].state = "Ready"
    /\ pollLog[10].hashId = "h2"
    /\ pollLog[9].hashId = "h1"
    /\ response.status = 200

\* C5: when a handler that accepted an uploaded file has finished, on
\* whatever exit path, the uploaded file is deleted.
C5_UploadDeletedOnEveryExit ==
    (handler \in UploadHandlers /\ hpc = "done" /\ response.status # 400)
    => /\ uploadFile = "deleted"
       /\ handlerEnd = "returned"

\* create-flipbook-from-pdf gave up polling and its upload is gone
C5_UploadDeletedAfterTimeout ==
    /\ handler = "flipbook-from-pdf"
    /\ hpc = "done"
    /\ response.status = 500
    /\ response.body.details = <<"Flipbook processing timed out">>
    /\ uploadFile = "deleted"

\* C6, as claimed: when create-flipbook-from-url has finished, on whatever
\* exit path that follows the creation of its temporary PDF, that file is
\* removed.
C6_TempFileRemovedOnEveryExit ==
    (handler = "flipbook-from-url" /\ hpc = "done" /\ tempFile # "none")
    => tempFile = "deleted"

\* C7, as claimed: when the reply is still not valid JSON after stripping,
\* the error makeChatRequest rejects with, and the error detail /api/chat
\* answers with, retain the offending content.
C7_ParseErrorRetainsContent ==
    ( /\ chatPc = "rejected"
      /\ LastOf(chatLog).type = "reply"
      /\ chatContent # <<>> )
    => /\ \/ Contains(chatValue.message, chatContent)
          \/ Contains(chatValue.message, LastOf(chatLog).content)
       /\ (handler = "chat" /\ hpc = "done")
          => \/ Contains(response.body.details, chatContent)
             \/ Contains(response.body.responseData, chatContent)

(***************************************************************************)
(* Properties of the preview store                                         *)
(***************************************************************************)
\* C8: once a sweep has run while a registered preview's file was older
\* than one hour, that preview's map entry and its file are gone, and a
\* later GET for its id answers 404.
C8_SweptPreviewIsGone ==
    /\ \A id \in swept :
          /\ Lookup(pdfPreviews, id) = <<>>
          /\ PathOf(id) \notin DOMAIN files
    /\ served.afterSweep => (served.status = 404 /\ served.path = <<>>)

\* a GET asked for a preview that a sweep had removed
C8_GetAfterSweep ==
    /\ served.afterSweep
    /\ served.status = 404
    /\ served.id \in DOMAIN born

\* C9: a registered preview whose file is not older than one hour is in
\* the map under its own path, with its file, whatever sweeps, puts and
\* gets have happened, and a GET for it within that window is answered with
\* that path.
C9_PreviewKeptWithinWindow ==
    /\ \A id \in DOMAIN born :
          now - born[id] <= 3600000
          => /\ Lookup(pdfPreviews, id) = PathOf(id)
             /\ PathOf(id) \in DOMAIN files
    /\ served.inWindow => (served.status = 200 /\ served.path = PathOf(served.id))

\* a GET found a preview exactly one hour old, after a sweep that removed
\* another one
C9_GetAtTheEndOfTheWindow ==
    /\ served.inWindow
    /\ served.status = 200
    /\ now - born[served.id] = 3600000
    /\ swept # {}
    /\ served.id \notin swept

(***************************************************************************)
(* Properties of describeImage                                             *)
(***************************************************************************)
\* the characters that begin a paragraph: not whitespace, and either the
\* first such character or parted from the one before by a blank line
ParagraphStarts(s) ==
    { i \in 1..Len(s) :
        /\ s[i] \notin {"\n", " "}
        /\ LET before == { j \in 1..(i - 1) : s[j] \notin {"\n", " "} } IN
             \/ before = {}
             \/ LET j == CHOOSE m \in before : \A x \in before : x <= m
                IN  \E k \in (j + 1)..(i - 2) : s[k] = "\n" /\ s[k + 1] = "\n" }

\* C10: describeImage rejects when the reply has fewer than 5 non-empty
\* blank-line-delimited paragraphs and returns the reply unchanged when it
\* has 5 or more; the too-short failure arises from that condition only,
\* and differs from the failure for a missing response and from the one
\* for a response without a string message.
C10_RejectsFewerThanFiveParagraphs ==
    descResult # NoValue =>
        /\ (descReply.shape = "string" /\ Cardinality(ParagraphStarts(descReply.content)) < 5)
           => /\ ~descResult.ok
              /\ descResult.error.message = <<"Generated content has less than 5 paragraphs">>
        /\ (descReply.shape = "string" /\ Cardinality(ParagraphStarts(descReply.content)) >= 5)
           => /\ descResult.ok
              /\ descResult.value = descReply.content
        /\ descReply.shape = "nochoices"
           => /\ ~descResult.ok
              /\ descResult.error.message = <<"Unexpected response structure">>
        /\ descReply.shape = "nomessage"
           => /\ ~descResult.ok
              /\ descResult.error.message = <<"No valid message found in response">>
        /\ descReply.shape = "failed" => (~descResult.ok /\ descResult.error = ApiError)

\* a reply that splits into 5 pieces, one of them blank, was rejected
C10_FivePiecesOneBlank ==
    /\ descResult # NoValue
    /\ descReply.shape = "string"
    /\ Len(SplitBlank(descReply.content)) = 5
    /\ Len(Paragraphs(descReply.content)) = 4
    /\ ~descResult.ok
    /\ descResult.error = TooShortError

(***************************************************************************)
(* Properties of generateStoryName                                         *)
(***************************************************************************)
\* the whitespace-delimited tokens of a text
Tokens(text) == SelectSeq(Split(text, {" ", "\n"}), LAMBDA w : w # <<>>)

\* the first at most three tokens that are no stop words, joined by spaces
FirstThreeKept(summary) ==
    LET kept == SelectSeq(Tokens(summary), LAMBDA w : ~IsStopWord(w))
    IN  Join(SubSeq(kept, 1, IF Len(kept) < 3 THEN Len(kept) ELSE 3), " ")

\* C11, as claimed: the name is the first at most three whitespace-delimited
\* tokens of the summary that are no stop words (whatever their case), in
\* their order, joined by single spaces; no token of the name is a stop word
\* or empty, and the empty summary gives the empty name.
C11_NameIsFirstThreeKeptTokens ==
    nameResult # NoValue =>
        /\ nameResult.value = FirstThreeKept(nameInput)
        /\ nameResult.value # <<>> =>
              \A i \in 1..Len(Split(nameResult.value, {" "})) :
                  LET token == Split(nameResult.value, {" "})[i]
                  IN  /\ token # <<>>
                      /\ ~IsStopWord(token)
                      /\ Tokens(token) = << token >>
        /\ nameInput = <<>> => nameResult.value = <<>>

(***************************************************************************)
(* Properties of the document assembler                                    *)
(***************************************************************************)
\* the positions of storyData's chapter keys among its keys, in key order
ChapterPositions(keys) ==
    { p \in 1..Len(keys) : keys[p][1] = "chapter" /\ keys[p][Len(keys[p])] # "Name" }

\* the c-th chapter key in key order
ChapterKeyAt(keys, c) ==
    keys[CHOOSE p \in ChapterPositions(keys) :
             Cardinality({ q \in ChapterPositions(keys) : q <= p }) = c]

\* where the heading of chapter c stands in the document d, 0 when nowhere
HeadingAt(d, c) ==
    IF \E j \in 1..Len(d) : d[j].op = "heading" /\ d[j].chapter = c
    THEN CHOOSE j \in 1..Len(d) : d[j].op = "heading" /\ d[j].chapter = c
    ELSE 0

\* C12: in each of /api/pdf, /api/generate-pdf and /api/generate-pdf-preview
\* the document holds, at every moment, one section per chapter key reached
\* so far, in key order: the c-th heading is that of the c-th chapter key,
\* everything written for a chapter stands after its heading and before the
\* next chapter's heading, and the document the handler ends holds exactly N
\* sections for N chapter keys, each with the paragraphs of its chapter.
C12_SectionsInKeyOrder ==
    handler \in DocHandlers =>
        LET n     == Cardinality(ChapterPositions(reqBody.keys))
            heads == SelectSeq(doc, LAMBDA item : item.op = "heading")
        IN  /\ Len(heads) <= n
            /\ \A c \in 1..Len(heads) :
                  /\ heads[c].chapter = c
                  /\ heads[c].key = ChapterKeyAt(reqBody.keys, c)
            /\ \A j \in 1..Len(doc) :
                  doc[j].op \notin {"title", "heading"} =>
                      /\ HeadingAt(doc, doc[j].chapter) > 0
                      /\ HeadingAt(doc, doc[j].chapter) < j
                      /\ HeadingAt(doc, doc[j].chapter + 1) > 0
                             => j < HeadingAt(doc, doc[j].chapter + 1)
            /\ docEnded =>
                  /\ Len(heads) = n
                  /\ \A c \in 1..n :
                        LET text == SelectSeq(doc, LAMBDA item :
                                        item.op = "paragraph" /\ item.chapter = c)
                        IN  /\ Len(text) >= 1
                            /\ text = [j \in 1..Len(text) |->
                                          [op |-> "paragraph", chapter |-> c,
                                           key |-> ChapterKeyAt(reqBody.keys, c),
                                           text |-> SplitBlank(ValueOf(ChapterKeyAt(reqBody.keys, c)))[j]]]
                            /\ Len(text) = Len(SplitBlank(ValueOf(ChapterKeyAt(reqBody.keys, c))))

\* a preview of two chapters, chapter2 being the first key, is answered after
\* the picture of its second section was placed
C12_TwoSectionsSecondKeyFirst ==
    /\ handler = "generate-pdf-preview"
    /\ response.status = 200
    /\ reqBody.keys = << <<"chapter", "2">>, <<"chapter", "1", "Name">>, <<"chapter", "1">> >>
    /\ \E j \in 1..Len(doc) : doc[j].op = "image" /\ doc[j].chapter = 2

\* C13, as claimed: when the download or the decoding of a chapter's image
\* fails, the assembler writes a visible placeholder in that chapter and goes
\* on: the handler does not throw, and it ends the document.
C13_PlaceholderAndContinue ==
    handler \in DocHandlers =>
        \A k \in 1..Len(imageLog) :
            imageLog[k].outcome # "ok" =>
                /\ \E j \in 1..Len(doc) :
                      doc[j].op = "placeholder" /\ doc[j].chapter = imageLog[k].chapter
                /\ handlerEnd # "threw"
                /\ hpc = "done" => docEnded /\ response.status = 200

(***************************************************************************)
(* Properties of the handlers' error answers                               *)
(***************************************************************************)
\* the endpoints that call an upstream service
UpstreamHandlers ==
    {"chat", "regenerate-story", "regenerate-image", "describe-image", "story-from-image",
     "flipbook-from-pdf", "flipbook-from-url", "check-flipbook-status"}

\* the error is the rejection of an upstream call, other than a 429
IsUpstreamFailure(error) ==
    /\ error # NoValue
    /\ error.name \in {"AxiosError", "APIError"}
    /\ ~(error.response.present /\ error.response.status = 429)

\* C14, as claimed: in every endpoint that calls an upstream service, an
\* upstream failure other than a 429 is answered with a 500 that carries the
\* upstream error's message and, when the error has one, the upstream
\* response body.
C14_UpstreamFailureCarriedInAnswer ==
    (handler \in UpstreamHandlers /\ IsUpstreamFailure(caught)) =>
        /\ response.status = 500
        /\ response.body.details = caught.message
        /\ caught.response.present => response.body.responseData = caught.response.data

\* C15, as claimed: a create-flipbook request that reached the create call
\* and failed has exactly one of three causes, and its answer tells which:
\* an upstream call failed (the answer carries that error's message), the
\* create response had no job id (the invalid-response message), or ten
\* polls passed without Ready (the timeout message).
C15_ThreeDistinguishableFailures ==
    ( /\ handler \in FlipHandlers
      /\ hpc = "done"
      /\ createLog # NoValue
      /\ response.status # 200 )
    => LET upstream == \/ createLog.kind \in {"http", "network"}
                       \/ /\ pollLog # <<>>
                          /\ LastOf(pollLog).type \in {"http", "network"}
           invalid  == createLog.kind = "noid"
           timeout  == /\ Len(pollLog) = 10
                       /\ \A i \in 1..10 : pollLog[i].type \in {"publication", "nopublication"}
           invalidText == <<"Invalid or unexpected response from FlippingBook API">>
           timeoutText == <<"Flipbook processing timed out">>
       IN  /\ response.status = 500
           /\ upstream \/ invalid \/ timeout
           /\ ~(upstream /\ invalid) /\ ~(upstream /\ timeout) /\ ~(invalid /\ timeout)
           /\ invalid <=> response.body.details = invalidText
           /\ timeout <=> response.body.details = timeoutText
           /\ upstream => response.body.details \in
                              { HttpError(500).message, NetworkError.message }

(***************************************************************************)
(* Properties of the handlers' validation                                  *)
(***************************************************************************)
\* the request is one the handler's validation turns down
FailsValidation ==
    \/ handler = "pdf" /\ ~reqBody.storyData
    \/ handler = "generate-pdf-preview" /\ (~reqBody.storyData \/ ~reqBody.storyName)
    \/ handler = "generate-pdf" /\ (~reqBody.storyData \/ ~reqBody.imageUrls.present)
    \/ handler \in {"describe-image", "story-from-image", "flipbook-from-pdf"}
          /\ uploadFile = "none"
    \/ handler = "flipbook-from-url" /\ awaited = <<>>

\* the message each endpoint turns a request down with
SpecificMessage ==
    CASE handler = "pdf"                  -> <<"Story content is required">>
      [] handler = "generate-pdf-preview" -> <<"Story content and name are required">>
      [] handler = "generate-pdf"         -> <<"Story content and images are required">>
      [] handler = "flipbook-from-pdf"    -> <<"No PDF file uploaded">>
      [] handler = "flipbook-from-url"    -> <<"Preview URL is required">>
      [] OTHER                            -> <<"No image uploaded">>

\* C16: a request that fails its endpoint's validation is answered 400 with
\* that endpoint's message, at once: no await was made, no chat request was
\* issued, nothing was written to a document, no upload or temp file exists,
\* no preview id was drawn, no file is being written or was written, and no
\* preview was registered. No other request is answered 400.
C16_ValidationFailureTouchesNothing ==
    /\ FailsValidation =>
          /\ hpc = "done"
          /\ handlerEnd = "returned"
          /\ response.status = 400
          /\ response.body.error = SpecificMessage
          /\ awaited = <<>>
          /\ requests = 0 /\ chatPc = "idle"
          /\ createLog = NoValue /\ pollLog = <<>> /\ waits = 0
          /\ doc = <<>> /\ imageLog = <<>>
          /\ uploadFile = "none" /\ tempFile = "none"
          /\ nextId = 1 /\ writing = {} /\ pdfPreviews = <<>> /\ DOMAIN files = {}
    /\ response.status = 400 => FailsValidation

\* a preview request with chapters and urls but no storyName was turned down
C16_PreviewWithoutNameRejected ==
    /\ handler = "generate-pdf-preview"
    /\ response.status = 400
    /\ reqBody.storyData
    /\ ~reqBody.storyName
    /\ Len(chapterKeys(reqBody)) = 2
    /\ reqBody.imageUrls.list = <<"url", "url">>

(***************************************************************************)
(* Properties of the sweep when a file is already missing                  *)
(***************************************************************************)
\* C17, as claimed: a sweep pass that meets a map entry whose file is
\* missing does not fail: the process stays up, and the pass still removes
\* every over-age entry whose file exists, together with its file.
C17_SweepSurvivesMissingFile ==
    [][ ( /\ processUp
          /\ nextSweepAt' # nextSweepAt
          /\ \E i \in 1..Len(pdfPreviews) : pdfPreviews[i].path \notin DOMAIN files )
        => /\ processUp'
           /\ \A i \in 1..Len(pdfPreviews) :
                 ( /\ pdfPreviews[i].path \in DOMAIN files
                   /\ now - files[pdfPreviews[i].path] > 3600000 )
                 => /\ pdfPreviews[i].path \notin DOMAIN files'
                    /\ Lookup(pdfPreviews', pdfPreviews[i].id) = <<>> ]_vars

(***************************************************************************)
(* Properties of getPublicationDetails                                     *)
(***************************************************************************)
\* C18, as claimed: one invocation of getPublicationDetails makes at most 3
\* status requests.
C18_AtMostThreeRequests ==
    pubRequests <= 3

\* C18, amended: one invocation of getPublicationDetails makes at most 4
\* status requests, the first attempt and at most 3 retries; the k-th retry
\* comes after a delay of 2000 * k ms that follows a failed attempt; and the
\* call rejects only after a fourth failed attempt, with that attempt's error.
C18_AtMostThreeRetries ==
    pubPc # "idle" =>
        /\ pubRequests <= 4
        /\ pubRequests = (3 - pubRetries) + 1
        /\ Len(pubDelays) = IF pubPc = "delaying" THEN pubRequests ELSE pubRequests - 1
        /\ \A k \in 1..Len(pubDelays) :
              /\ pubDelays[k] = 2000 * k
              /\ pubLog[k].type \in {"http", "network"}
        /\ pubPc = "rejected" =>
              /\ pubRequests = 4
              /\ Len(pubLog) = 4
              /\ pubValue = IF pubLog[4].type = "http" THEN HttpError(500) ELSE NetworkError

\* four attempts failed, the last one differently from the third
C18_FourthAttemptFailed ==
    /\ pubPc = "rejected"
    /\ pubRequests = 4
    /\ pubLog[3].type = "http"
    /\ pubLog[4].type = "network"
    /\ pubValue = NetworkError
    /\ pubDelays = <<2000, 4000, 6000>>

(***************************************************************************)
(* Properties of the backoff                                               *)
(***************************************************************************)
\* C19, as claimed: in every variant of makeChatRequest, the delays waited
\* within one call are strictly increasing.
C19_DelaysStrictlyIncreasing ==
    \A k \in 1..(Len(delays) - 1) : delays[k] < delays[k + 1]

\* what the two helpers do: every delay follows a 429; in the helper of
\* index.js the delay before the k-th retry is k * 1000 ms, so the delays of
\* one call are strictly increasing; in the helper of part_000 the delay is
\* the retry-after hint of the 429 it follows, and 1000 ms without a hint.
DelaysByVariant ==
    /\ Len(delays) <= Len(chatLog)
    /\ \A k \in 1..Len(delays) :
          /\ chatLog[k].type = "http" /\ chatLog[k].status = 429
          /\ chatVariant = "index.js" =>
                /\ delays[k] = k * 1000
                /\ k > 1 => delays[k - 1] < delays[k]
          /\ chatVariant = "part_000" =>
                delays[k] = CASE chatLog[k].header = "3" -> 3000
                              [] chatLog[k].header = "1" -> 1000
                              [] OTHER                   -> 1000

(***************************************************************************)
(* Properties of the per-chapter tasks                                     *)
(***************************************************************************)
\* C20: in /api/chat and /api/generate-story-from-image the story is
\* answered only when every chapter's task is fulfilled, one task per
\* chapter, so that no task is still running after a success answer; and
\* once a task has failed the request is answered 500 with an error body
\* and no story data. While the handler waits, no task has failed and some
\* task is still running.
C20_AnswerAfterEveryTask ==
    handler \in {"chat", "story-from-image"} =>
        /\ (response.status = 200 /\ response.body.kind = "story") =>
              /\ Len(tasks) = chatValue.chapters
              /\ \A i \in 1..Len(tasks) : tasks[i].pc = "fulfilled"
              /\ Len(response.body.imageUrls) = Len(tasks)
        /\ (\E i \in 1..Len(tasks) : tasks[i].pc = "rejected") =>
              /\ hpc = "done"
              /\ response.status = 500
              /\ response.body.kind = "error"
        /\ hpc = "chapterImages" =>
              /\ response = NoReply
              /\ \A i \in 1..Len(tasks) : tasks[i].pc # "rejected"
              /\ \E i \in 1..Len(tasks) : tasks[i].pc \in {"summarizeStory", "generateImage"}

\* a story of two chapters was answered 200 with both chapters' tasks
\* fulfilled and one image URL per chapter, in chapter order
C20_TwoTasksJoined ==
    /\ handler = "story-from-image"
    /\ response.status = 200
    /\ Len(tasks) = 2
    /\ response.body.imageUrls = <<1, 2>>

\* C21: whatever the order in which the chapters' tasks were fulfilled, the
\* imageUrls of a story answer hold exactly one entry per chapter key and
\* entry i is the image of the i-th chapter key; the assembler of the three
\* document endpoints downloads imageUrls[i] for its i-th chapter key, in
\* the same key order, and draws it in that chapter's section.
C21_ImageUrlsFollowChapterOrder ==
    /\ (/\ handler \in {"chat", "story-from-image"}
        /\ response.status = 200
        /\ response.body.kind = "story") =>
           /\ Len(response.body.imageUrls) = chatValue.chapters
           /\ \A i \in 1..chatValue.chapters : response.body.imageUrls[i] = i
    /\ handler \in DocHandlers =>
           /\ \A k \in 1..Len(imageLog) :
                  /\ imageLog[k].chapter \in 1..Len(chapterKeys(reqBody))
                  /\ HasUrl(reqBody, imageLog[k].chapter)
                  /\ \A j \in 1..(k - 1) : imageLog[j].chapter < imageLog[k].chapter
           /\ \A p \in 1..Len(doc) :
                  doc[p].op \in {"image", "placeholder"} =>
                      /\ doc[p].key = chapterKeys(reqBody)[doc[p].chapter]
                      /\ \E k \in 1..Len(imageLog) : imageLog[k].chapter = doc[p].chapter

\* a story of two chapters was answered after the second chapter's task had
\* been fulfilled before the first chapter's
C21_SecondChapterFinishedFirst ==
    /\ handler = "chat"
    /\ response.status = 200
    /\ response.body.kind = "story"
    /\ Len(tasks) = 2
    /\ tasks[2].nth = 1
    /\ tasks[1].nth = 2

\* C22, as claimed: a request of /api/pdf, /api/generate-pdf or
\* /api/generate-pdf-preview whose handler has come to its end has been
\* answered, with a document, a preview id or an error status, also when a
\* chapter's image failed or imageUrls is absent: no handler ends by
\* throwing with the request left unanswered.
C22_EveryDocumentRequestAnswered ==
    (handler \in DocHandlers /\ hpc = "done") =>
        /\ response # NoReply
        /\ response.status \in {200, 400, 500}
        /\ handlerEnd # "threw"

\* every id of the preview map has its complete file on disk: it is
\* registered when its write has finished, and a sweep takes file and entry
\* away together
PreviewEntriesBacked ==
    \A i \in 1..Len(pdfPreviews) :
        /\ pdfPreviews[i].id \notin writing
        /\ pdfPreviews[i].path = PathOf(pdfPreviews[i].id)
        /\ pdfPreviews[i].path \in DOMAIN files

\* C23, as claimed: under every interleaving of preview creation, GETs and
\* sweeps, every id of the preview map has its complete file on disk, and a
\* GET that found its id in the map does not come to send a file that a
\* sweep has deleted: its sendFile finds the file.
C23_FoundPreviewIsServed ==
    /\ PreviewEntriesBacked
    /\ served.path # <<>> => served.sent \in {"pending", "file"}

\* the attempt got a reply whose content, control characters stripped, is
\* not JSON
IsParseFailure(o) == o.type = "reply" /\ ~JsonParses(escapeJsonString(o.content))

\* C24: a reply that fails to parse as JSON is never retried: it is the last
\* attempt of the call, also after 429 retries with retries left, no further
\* request is issued, and makeChatRequest rejects with the parse-failure
\* error, which is no upstream error and carries no response.
C24_ParseFailureNeverRetried ==
    \A i \in 1..Len(chatLog) :
        IsParseFailure(chatLog[i])
        => /\ i = Len(chatLog)
           /\ requests = i
           /\ chatPc = "rejected"
           /\ chatValue.name = "Error"
           /\ chatValue.message = <<"Failed to parse JSON response">>
           /\ ~chatValue.response.present

\* a reply that does not parse came after a retried 429, with retries left
C24_ParseFailureAfterRetry ==
    /\ Len(chatLog) >= 2
    /\ chatLog[1].type = "http"
    /\ chatLog[1].status = RateLimited
    /\ IsParseFailure(LastOf(chatLog))
    /\ retries >= 1
    /\ retries < MAX_RETRIES
    /\ chatPc = "rejected"

====
